---- MODULE Spec2Model ----
(***************************************************************************)
(* Search-Server: the HTTP handler SearchServer of cmd/server.go and the   *)
(* query pipeline behind it (parseQueryParams, validateQueryParams,        *)
(* parseUsers, processUsers = filterUsers -> sortUsers -> paginateUsers).  *)
(*                                                                         *)
(* Strings are sequences of byte codes, so that strings.Contains,          *)
(* strings.Compare, strings.TrimRight and strconv.Atoi are computed on the *)
(* bytes as the library computes them.  Go's int is modelled as a signed   *)
(* two's-complement integer of IntBits bits.                               *)
(***************************************************************************)
EXTENDS Integers, Sequences, FiniteSets, TLC

VARIABLES
    token,       \* the AccessToken header of the request
    rawParams,   \* r.URL.Query(): key -> value, a missing key is Absent
    fileState,   \* what os.ReadFile(database) finds: missing, broken, ok
    fileRows,    \* the <row> groups of the dataset document
    pc,          \* position of the handler within SearchServer
    params,      \* *SearchRequestServer built by parseQueryParams
    users,       \* the []UserClient the handler holds
    resp,        \* the http.ResponseWriter: header state, status, body
    touched,     \* whether the dataset was read / parsed by the handler
    fnUsers,     \* argument slice of a direct call of a pipeline function
    fnArgs,      \* the remaining arguments of that call
    fnOut,       \* the value the call returned
    fnBacking,   \* the caller's slice (same backing array) after the call
    handlers     \* the requests served concurrently: one handler state each

vars == <<token, rawParams, fileState, fileRows, pc, params, users, resp,
          touched, fnUsers, fnArgs, fnOut, fnBacking, handlers>>

srvVars == <<token, rawParams, fileState, fileRows, pc, params, users, resp,
             touched>>

fnVars == <<fnUsers, fnArgs, fnOut, fnBacking>>

----------------------------------------------------------------------------
(* Bounds of the model *)

MaxUsers == 3

NumRequests == 2

IntBits == 6

----------------------------------------------------------------------------
(* Machine integers *)

MaxInt == 2^(IntBits - 1) - 1

MinInt == -(2^(IntBits - 1))

\* offset + limit of Go's int: the sum wraps around
WrapInt(x) == ((x - MinInt) % 2^IntBits) + MinInt

----------------------------------------------------------------------------
(* Byte codes the code and the library name *)

chNL == 10

chSP == 32

chPlus == 43

chMinus == 45

chZero == 48

chNine == 57

----------------------------------------------------------------------------
(* Library string functions, on sequences of byte codes *)

\* strings.Contains(s, substr): literal, case-sensitive substring
Contains(s, substr) ==
    \E i \in 0..(Len(s) - Len(substr)) :
        \A k \in 1..Len(substr) : s[i + k] = substr[k]

RECURSIVE CompareFrom(_, _, _)
CompareFrom(a, b, i) ==
    IF i > Len(a) /\ i > Len(b) THEN 0
    ELSE IF i > Len(a) THEN -1
    ELSE IF i > Len(b) THEN 1
    ELSE IF a[i] < b[i] THEN -1
    ELSE IF a[i] > b[i] THEN 1
    ELSE CompareFrom(a, b, i + 1)

\* strings.Compare(a, b): bytewise lexicographic, -1 / 0 / +1
Compare(a, b) == CompareFrom(a, b, 1)

RECURSIVE TrimRight(_, _)
\* strings.TrimRight(s, cutset): removes every trailing byte of the cutset
TrimRight(s, cutset) ==
    IF Len(s) > 0 /\ s[Len(s)] \in cutset
    THEN TrimRight(SubSeq(s, 1, Len(s) - 1), cutset)
    ELSE s

IsDigit(c) == c >= chZero /\ c <= chNine

RECURSIVE DigitsValue(_, _)
DigitsValue(s, acc) ==
    IF s = <<>> THEN acc
    ELSE DigitsValue(Tail(s), acc * 10 + (Head(s) - chZero))

\* strconv.Atoi(s): optional sign, then one or more decimal digits; a value
\* outside the range of int is an error (ErrRange), as is any other byte
Atoi(s) ==
    LET signed == Len(s) > 0 /\ s[1] \in {chPlus, chMinus}
        digits == IF signed THEN Tail(s) ELSE s
        mag    == DigitsValue(digits, 0)
        val    == IF signed /\ s[1] = chMinus THEN -mag ELSE mag
    IN  IF digits = <<>> \/ \E k \in 1..Len(digits) : ~IsDigit(digits[k])
        THEN [err |-> TRUE, val |-> 0]
        ELSE IF val > MaxInt \/ val < MinInt
        THEN [err |-> TRUE, val |-> 0]
        ELSE [err |-> FALSE, val |-> val]

RECURSIVE NatDigits(_)
NatDigits(n) ==
    IF n < 10 THEN <<chZero + n>>
    ELSE Append(NatDigits(n \div 10), chZero + (n % 10))

\* strconv.Itoa(n), the way the tests' client writes limit, offset, order_by
Itoa(n) == IF n < 0 THEN <<chMinus>> \o NatDigits(-n) ELSE NatDigits(n)

----------------------------------------------------------------------------
(* Constants of server.go *)

nameFieldName == <<110, 97, 109, 101>>            \* "name"

ageFieldName == <<97, 103, 101>>                  \* "age"

idFieldName == <<105, 100>>                       \* "id"

genderFieldName == <<103, 101, 110, 100, 101, 114>>   \* "gender", not sortable

\* errors.New(ErrorBadOrderField); the constant is declared by the client
errBadOrderFieldParam == "ErrorBadOrderField"

errParsingXMLFailed == "failed to parse file"

errBadLimitParam == "bad limit param"

errBadOffsetParam == "bad offset param"

errBadOrderByParam == "bad order_by param"

errBadQueryParams == "bad query params"

errBadAccessToken == "bad AccessToken"

NoError == "nil"

StatusOK == 200

StatusBadRequest == 400

StatusUnauthorized == 401

StatusInternalServerError == 500

----------------------------------------------------------------------------
(* The records *)

\* UserServer: one <row> of the dataset document
UserServer(id, first, last, age, about, gender) ==
    [ID |-> id, Name |-> first, Surname |-> last, Age |-> age,
     About |-> about, Gender |-> gender]

\* UserClient: one parsed record
UserClient(id, name, age, about, gender) ==
    [ID |-> id, Name |-> name, Age |-> age, About |-> about, Gender |-> gender]

\* fmt.Sprintf("%s %s", user.Name, user.Surname)
SprintfName(first, last) == first \o <<chSP>> \o last

unexpectedChars == {chNL, chSP}

\* variant: only the last byte is removed when it is of the cutset
parseUser_TrimOne(user) ==
    UserClient(user.ID,
               SprintfName(user.Name, user.Surname),
               user.Age,
               IF Len(user.About) > 0 /\ user.About[Len(user.About)] \in unexpectedChars
               THEN SubSeq(user.About, 1, Len(user.About) - 1)
               ELSE user.About,
               user.Gender)


parseUser(user) ==
    UserClient(user.ID,
               SprintfName(user.Name, user.Surname),
               user.Age,
               TrimRight(user.About, unexpectedChars),
               user.Gender)

\* parseUsers(data): xml.Unmarshal fails on a document that is not well
\* formed; otherwise every row is converted, in document order
parseUsers(state, rows) ==
    IF state = "broken"
    THEN [err |-> errParsingXMLFailed, users |-> <<>>]
    ELSE [err |-> NoError,
          users |-> [i \in 1..Len(rows) |-> parseUser(rows[i])]]

----------------------------------------------------------------------------
(* filterUsers *)
\* variant: the biography is not searched
filterDel_NameOnly(item, query) == ~Contains(item.Name, query)

\* the predicate handed to slices.DeleteFunc: TRUE for a record to delete
filterDel(item, query) ==
    ~Contains(item.Name, query) /\ ~Contains(item.About, query)

\* slices.DeleteFunc(s, del): the kept elements, in their order
DeleteFunc(s, query) == SelectSeq(s, LAMBDA item : ~filterDel(item, query))

filterUsers(us, query) ==
    IF query # <<>> THEN DeleteFunc(us, query) ELSE us

\* the zero value of UserClient
zeroUser == UserClient(0, <<>>, 0, <<>>, "")

\* the slice s after slices.DeleteFunc(s, del) returned: the kept elements
\* are moved to the front; the elements behind them are zeroed by the
\* library of Go 1.22 and later and left as they were by Go 1.21
DeleteFuncInPlace(s, query, cleared) ==
    LET kept == DeleteFunc(s, query)
    IN  [i \in 1..Len(s) |->
            IF i <= Len(kept) THEN kept[i]
            ELSE IF cleared THEN zeroUser
            ELSE s[i]]

\* the caller's slice after filterUsers(users, query)
filterUsersInPlace(us, query, cleared) ==
    IF query # <<>> THEN DeleteFuncInPlace(us, query, cleared) ELSE us

----------------------------------------------------------------------------
(* sortUsers *)

compareUsersByAge(a, b) ==
    IF a.Age < b.Age THEN -1 ELSE IF a.Age > b.Age THEN 1 ELSE 0

compareUsersByID(a, b) ==
    IF a.ID < b.ID THEN -1 ELSE IF a.ID > b.ID THEN 1 ELSE 0

compareUsersByName(a, b) == Compare(a.Name, b.Name)

\* the sortFunc that sortUsers selects for an order field
sortFunc(field, a, b) ==
    IF field = ageFieldName THEN compareUsersByAge(a, b)
    ELSE IF field = idFieldName THEN compareUsersByID(a, b)
    ELSE compareUsersByName(a, b)
\* variant: the direction is ignored
orderCmp_Ascending(field, order, a, b) == sortFunc(field, a, b)

\* the comparator sortByFieldAndOrder hands to slices.SortStableFunc
orderCmp(field, order, a, b) ==
    IF order < 0 THEN -sortFunc(field, a, b) ELSE sortFunc(field, a, b)

Swap(s, i, j) == [s EXCEPT ![i] = s[j], ![j] = s[i]]

RECURSIVE insertionInner(_, _, _, _)
\* for j := i; j > a && cmp(data[j], data[j-1]) < 0; j-- { swap(j, j-1) }
insertionInner(s, j, field, order) ==
    IF j > 1 /\ orderCmp(field, order, s[j], s[j - 1]) < 0
    THEN insertionInner(Swap(s, j, j - 1), j - 1, field, order)
    ELSE s

RECURSIVE insertionOuter(_, _, _, _)
insertionOuter(s, i, field, order) ==
    IF i > Len(s) THEN s
    ELSE insertionOuter(insertionInner(s, i, field, order), i + 1, field, order)

\* slices.SortStableFunc: slices shorter than its block size of 20 are
\* sorted by one run of insertion sort
SortStableFunc(s, field, order) == insertionOuter(s, 2, field, order)
Reverse(s) == [i \in 1..Len(s) |-> s[Len(s) + 1 - i]]

\* variant: descending order obtained by reversing the ascending sort
sortByFieldAndOrder_Reversed(us, order, field) ==
    IF order < 0
    THEN Reverse(SortStableFunc(us, field, 1))
    ELSE SortStableFunc(us, field, order)


sortByFieldAndOrder(us, order, field) == SortStableFunc(us, field, order)

sortUsers(us, orderField, orderBy) ==
    IF orderBy # 0
    THEN IF orderField \in {<<>>, nameFieldName, ageFieldName, idFieldName}
         THEN sortByFieldAndOrder(us, orderBy, orderField)
         ELSE us
    ELSE us

----------------------------------------------------------------------------
(* paginateUsers and processUsers *)

\* the slice expression s[lo:hi]; a run-time panic unless 0 <= lo <= hi and
\* hi <= cap(s).  Every hi the code uses is at most len(s).
SliceExpr(s, lo, hi) ==
    IF 0 <= lo /\ lo <= hi /\ hi <= Len(s)
    THEN [panic |-> FALSE, users |-> SubSeq(s, lo + 1, hi)]
    ELSE [panic |-> TRUE, users |-> <<>>]
\* variant: the page ends at limit instead of offset + limit
paginateUsers_EndAtLimit(us, offset, limit) ==
    LET lastUserIdx == limit
    IN  IF lastUserIdx <= Len(us)
        THEN SliceExpr(us, offset, lastUserIdx)
        ELSE SliceExpr(us, offset, Len(us))


paginateUsers(us, offset, limit) ==
    LET lastUserIdx == WrapInt(offset + limit)
    IN  IF lastUserIdx <= Len(us)
        THEN SliceExpr(us, offset, lastUserIdx)
        ELSE SliceExpr(us, offset, Len(us))
\* variant: the offset is compared with the length before filtering
processUsers_RawBound(us, p) ==
    LET filtered == filterUsers(us, p.Query)
    IN  IF p.Offset >= Len(us)
        THEN [panic |-> FALSE, users |-> <<>>]
        ELSE paginateUsers(sortUsers(filtered, p.OrderField, p.OrderBy),
                           p.Offset, p.Limit)


\* variant: the page is cut first and then sorted
processUsers_SortPage(us, p) ==
    LET filtered == filterUsers(us, p.Query)
    IN  IF p.Offset >= Len(filtered)
        THEN [panic |-> FALSE, users |-> <<>>]
        ELSE LET page == paginateUsers(filtered, p.Offset, p.Limit)
             IN  [panic |-> page.panic,
                  users |-> sortUsers(page.users, p.OrderField, p.OrderBy)]


processUsers(us, p) ==
    LET filtered == filterUsers(us, p.Query)
    IN  IF p.Offset >= Len(filtered)
        THEN [panic |-> FALSE, users |-> <<>>]
        ELSE paginateUsers(sortUsers(filtered, p.OrderField, p.OrderBy),
                           p.Offset, p.Limit)

\* the caller's slice after processUsers(users, params): filterUsers and
\* sortUsers work on the caller's backing array, paginateUsers only reslices
processUsersInPlace(us, p, cleared) ==
    LET backing == filterUsersInPlace(us, p.Query, cleared)
        n       == Len(filterUsers(us, p.Query))
    IN  IF p.Offset >= n
        THEN backing
        ELSE sortUsers(SubSeq(backing, 1, n), p.OrderField, p.OrderBy)
             \o SubSeq(backing, n + 1, Len(backing))

----------------------------------------------------------------------------
(* The handler's response writer *)

NoBody == [kind |-> "none", error |-> "", users |-> <<>>]

ErrorServer(msg) == [kind |-> "error", error |-> msg, users |-> <<>>]

UsersBody(us) == [kind |-> "users", error |-> "", users |-> us]

NewResponse ==
    [wroteHeader |-> FALSE, status |-> 0, contentType |-> "", body |-> NoBody]

\* w.WriteHeader(code): only the first call sets the status
WriteHeader(w, code) ==
    IF w.wroteHeader THEN w
    ELSE [w EXCEPT !.wroteHeader = TRUE, !.status = code]

\* w.Header().Set("Content-Type", ...): no effect once the header is written
SetContentType(w, ct) ==
    IF w.wroteHeader THEN w ELSE [w EXCEPT !.contentType = ct]

\* enc.Encode(v): the first Write sends the header with status 200 unless a
\* status was set; a failed Write leaves no body and returns an error
Encode(w, body, writeOK) ==
    LET w1 == WriteHeader(w, StatusOK)
    IN  IF writeOK THEN [w1 EXCEPT !.body = body] ELSE w1

\* the closure sendErrorResponse of SearchServer
sendErrorResponse(w, errMsg, statusCode, writeOK) ==
    LET w1 == SetContentType(w, "application/json")
        w2 == WriteHeader(w1, statusCode)
        w3 == Encode(w2, ErrorServer(errMsg), writeOK)
    IN  IF writeOK THEN w3 ELSE WriteHeader(w3, StatusInternalServerError)

----------------------------------------------------------------------------
(* authCheck *)

\* jwt.Parse(token, keyFunc): an error unless the token has three segments,
\* its signature verifies under SecretToken and its claims are valid; a
\* token parsed without error is Valid
jwtParse(tok) ==
    LET ok == tok.segments = 3 /\ tok.sigOK /\ tok.claimsOK
    IN  [err |-> ~ok, Valid |-> ok]

authCheck(tok) ==
    LET parsedToken == jwtParse(tok)
    IN  IF parsedToken.err \/ ~parsedToken.Valid
        THEN errBadAccessToken
        ELSE NoError

----------------------------------------------------------------------------
(* parseQueryParams and validateQueryParams *)

\* url.Values.Get(key): the first value of the key, "" when it has none
Get(values, key) == IF values[key] = <<>> THEN <<>> ELSE values[key][1]

NoParams == [Limit |-> 0, Offset |-> 0, Query |-> <<>>, OrderField |-> <<>>,
             OrderBy |-> 0]
\* variant: a request without order_by is read as order_by = 0
parseQueryParams_DefaultOrderBy(raw) ==
    LET limit   == Atoi(Get(raw, "limit"))
        offset  == Atoi(Get(raw, "offset"))
        orderBy == IF raw["order_by"] = <<>>
                   THEN [err |-> FALSE, val |-> 0]
                   ELSE Atoi(Get(raw, "order_by"))
    IN  IF limit.err THEN [err |-> errBadQueryParams, params |-> NoParams]
        ELSE IF offset.err THEN [err |-> errBadQueryParams, params |-> NoParams]
        ELSE IF orderBy.err THEN [err |-> errBadQueryParams, params |-> NoParams]
        ELSE [err |-> NoError,
              params |-> [Limit |-> limit.val,
                          Offset |-> offset.val,
                          Query |-> Get(raw, "query"),
                          OrderField |-> Get(raw, "order_field"),
                          OrderBy |-> orderBy.val]]


parseQueryParams(raw) ==
    LET limit   == Atoi(Get(raw, "limit"))
        offset  == Atoi(Get(raw, "offset"))
        orderBy == Atoi(Get(raw, "order_by"))
    IN  IF limit.err THEN [err |-> errBadQueryParams, params |-> NoParams]
        ELSE IF offset.err THEN [err |-> errBadQueryParams, params |-> NoParams]
        ELSE IF orderBy.err THEN [err |-> errBadQueryParams, params |-> NoParams]
        ELSE [err |-> NoError,
              params |-> [Limit |-> limit.val,
                          Offset |-> offset.val,
                          Query |-> Get(raw, "query"),
                          OrderField |-> Get(raw, "order_field"),
                          OrderBy |-> orderBy.val]]
\* variant: the order field is checked after limit and offset
validateQueryParams_LimitFirst(p) ==
    IF p.Limit <= 0 THEN errBadLimitParam
    ELSE IF p.Offset < 0 THEN errBadOffsetParam
    ELSE IF p.OrderField # <<>> /\ p.OrderField # nameFieldName
            /\ p.OrderField # ageFieldName /\ p.OrderField # idFieldName
    THEN errBadOrderFieldParam
    ELSE IF p.OrderBy \in {-1, 0, 1} THEN NoError
    ELSE errBadOrderByParam


validateQueryParams(p) ==
    IF p.OrderField # <<>> /\ p.OrderField # nameFieldName
       /\ p.OrderField # ageFieldName /\ p.OrderField # idFieldName
    THEN errBadOrderFieldParam
    ELSE IF p.Limit <= 0 THEN errBadLimitParam
    ELSE IF p.Offset < 0 THEN errBadOffsetParam
    ELSE IF p.OrderBy \in {-1, 0, 1} THEN NoError
    ELSE errBadOrderByParam

----------------------------------------------------------------------------
(* The inputs the model draws *)

strA == <<97>>                \* "a"

strUpA == <<65>>              \* "A"

strB == <<98>>                \* "b"

strC == <<99>>                \* "c"

strX == <<120>>               \* "x"

strZ == <<122>>               \* "z"

strSpB == <<32, 98>>          \* " b"

Row1 == UserServer(1, strA, strB, 30, <<99, 10>>, "male")          \* about "c\n"

Row2 == UserServer(2, strUpA, strB, 20, <<97, 32, 10>>, "female")  \* about "a \n"

Row3 == UserServer(1, strA, strB, 20, strB, "male")                \* about "b"

Row4 == UserServer(3, strB, <<>>, 20, <<>>, "female")              \* about ""

Rows == <<Row1, Row4, Row2, Row3>>

\* the i-th row of a dataset document of the model
RowAt(i) == Rows[((i - 1) % Len(Rows)) + 1]

\* dataset documents: the first n rows, in document order or reversed
Datasets ==
    { [i \in 1..n |-> RowAt(i)] : n \in 0..MaxUsers }
    \cup { [i \in 1..n |-> RowAt(n + 1 - i)] : n \in 0..MaxUsers }

RECURSIVE SeqsUpTo(_, _)
SeqsUpTo(S, n) ==
    IF n = 0 THEN { <<>> }
    ELSE LET shorter == SeqsUpTo(S, n - 1)
         IN  shorter \cup { Append(q, x) : q \in shorter, x \in S }

\* record slices handed to the pipeline functions: parsed rows in any order,
\* repetitions included
ClientUsers == { parseUser(Rows[i]) : i \in 1..Len(Rows) }

UserSeqs == SeqsUpTo(ClientUsers, MaxUsers)

Queries == { <<>>, strA, strUpA, strC, strSpB, strZ }

OrderFields == { <<>>, nameFieldName, ageFieldName, idFieldName }

OrderBys == { -1, 0, 1 }

Limits == { 1, 2, MaxUsers + 1, MaxInt }

TokEmpty == [segments |-> 0, sigOK |-> FALSE, claimsOK |-> FALSE]   \* ""

Tok54 == [segments |-> 1, sigOK |-> FALSE, claimsOK |-> FALSE]      \* "54"

\* three segments, signed with another key than SecretToken
TokForged == [segments |-> 3, sigOK |-> FALSE, claimsOK |-> TRUE]

TokGood == [segments |-> 3, sigOK |-> TRUE, claimsOK |-> TRUE]

Tokens == { TokEmpty, Tok54, TokForged, TokGood }

Absent == <<>>

Present(v) == <<v>>

RawLimits ==
    { Absent, Present(strX), Present(Itoa(MaxInt + 1)) }
    \cup { Present(Itoa(v)) : v \in { 0, 1, 2, MaxInt } }

RawOffsets ==
    { Absent } \cup { Present(Itoa(v)) : v \in { -1, 0, 1, 2, MaxUsers } }

RawOrderBys ==
    { Absent } \cup { Present(Itoa(v)) : v \in { -1, 0, 1, 2 } }

RawQueries == { Absent, Present(strA), Present(strZ) }

RawOrderFields ==
    { Absent, Present(<<>>), Present(nameFieldName), Present(ageFieldName),
      Present(idFieldName), Present(genderFieldName) }

----------------------------------------------------------------------------
(* SearchServer, one request *)

NotTouched == [read |-> FALSE, parsed |-> FALSE]

FnIdleArgs == [fn |-> "none", Query |-> <<>>, OrderField |-> <<>>,
               OrderBy |-> 0, Offset |-> 0, Limit |-> 0]

NoResult == [panic |-> FALSE, users |-> <<>>]

Init ==
    /\ token \in Tokens
    /\ rawParams \in [limit : RawLimits, offset : RawOffsets,
                      order_by : RawOrderBys, query : RawQueries,
                      order_field : RawOrderFields]
    /\ fileState \in {"missing", "broken", "ok"}
    /\ fileRows \in (IF fileState = "ok" THEN Datasets ELSE { <<>> })
    /\ pc = "auth"
    /\ params = NoParams
    /\ users = <<>>
    /\ resp = NewResponse
    /\ touched = NotTouched
    /\ fnUsers = <<>>
    /\ fnArgs = FnIdleArgs
    /\ fnOut = NoResult
    /\ fnBacking = fnUsers
    /\ handlers = <<>>
\* variant: the handler does not return after the 401
AuthStep_NoReturn ==
    /\ pc = "auth"
    /\ IF authCheck(token) # NoError
       THEN /\ resp' = WriteHeader(resp, StatusUnauthorized)
            /\ pc' = "parse"
       ELSE /\ resp' = resp
            /\ pc' = "parse"
    /\ UNCHANGED <<token, rawParams, fileState, fileRows, params, users,
                   touched, fnVars, handlers>>

\* server.go 71-76
AuthStep ==
    /\ pc = "auth"
    /\ IF authCheck(token) # NoError
       THEN /\ resp' = WriteHeader(resp, StatusUnauthorized)
            /\ pc' = "done"
       ELSE /\ resp' = resp
            /\ pc' = "parse"
    /\ UNCHANGED <<token, rawParams, fileState, fileRows, params, users,
                   touched, fnVars, handlers>>

\* server.go 89-94
ParseStep ==
    /\ pc = "parse"
    /\ LET r == parseQueryParams(rawParams)
       IN  IF r.err # NoError
           THEN /\ \E writeOK \in BOOLEAN :
                      resp' = sendErrorResponse(resp, r.err, StatusBadRequest,
                                                writeOK)
                /\ pc' = "done"
                /\ params' = params
           ELSE /\ params' = r.params
                /\ pc' = "validate"
                /\ resp' = resp
    /\ UNCHANGED <<token, rawParams, fileState, fileRows, users, touched,
                   fnVars, handlers>>

\* variant: the handler does not return after the validation error
ValidateStep_NoReturn ==
    /\ pc = "validate"
    /\ LET err == validateQueryParams(params)
       IN  IF err # NoError
           THEN /\ \E writeOK \in BOOLEAN :
                      resp' = sendErrorResponse(resp, err, StatusBadRequest,
                                                writeOK)
                /\ pc' = "read"
           ELSE /\ resp' = resp
                /\ pc' = "read"
    /\ UNCHANGED <<token, rawParams, fileState, fileRows, params, users,
                   touched, fnVars, handlers>>

\* server.go 96-101
ValidateStep ==
    /\ pc = "validate"
    /\ LET err == validateQueryParams(params)
       IN  IF err # NoError
           THEN /\ \E writeOK \in BOOLEAN :
                      resp' = sendErrorResponse(resp, err, StatusBadRequest,
                                                writeOK)
                /\ pc' = "done"
           ELSE /\ resp' = resp
                /\ pc' = "read"
    /\ UNCHANGED <<token, rawParams, fileState, fileRows, params, users,
                   touched, fnVars, handlers>>

\* server.go 103-108
ReadStep ==
    /\ pc = "read"
    /\ touched' = [touched EXCEPT !.read = TRUE]
    /\ IF fileState = "missing"
       THEN /\ resp' = WriteHeader(resp, StatusInternalServerError)
            /\ pc' = "done"
       ELSE /\ resp' = resp
            /\ pc' = "parseUsers"
    /\ UNCHANGED <<token, rawParams, fileState, fileRows, params, users,
                   fnVars, handlers>>

\* server.go 110-115
ParseUsersStep ==
    /\ pc = "parseUsers"
    /\ touched' = [touched EXCEPT !.parsed = TRUE]
    /\ LET r == parseUsers(fileState, fileRows)
       IN  IF r.err # NoError
           THEN /\ \E writeOK \in BOOLEAN :
                      resp' = sendErrorResponse(resp, r.err,
                                                StatusInternalServerError,
                                                writeOK)
                /\ pc' = "done"
                /\ users' = users
           ELSE /\ users' = r.users
                /\ pc' = "process"
                /\ resp' = resp
    /\ UNCHANGED <<token, rawParams, fileState, fileRows, params, fnVars, handlers>>

\* server.go 117; a run-time panic of the slice expression ends the handler
\* without a response
ProcessStep ==
    /\ pc = "process"
    /\ LET r == processUsers(users, params)
       IN  IF r.panic
           THEN /\ pc' = "panic"
                /\ users' = users
           ELSE /\ pc' = "encode"
                /\ users' = r.users
    /\ UNCHANGED <<token, rawParams, fileState, fileRows, params, resp,
                   touched, fnVars, handlers>>

\* server.go 119-123
EncodeStep ==
    /\ pc = "encode"
    /\ \E writeOK \in BOOLEAN :
          LET w1 == SetContentType(resp, "application/json")
              w2 == Encode(w1, UsersBody(users), writeOK)
          IN  resp' = IF writeOK THEN w2
                      ELSE WriteHeader(w2, StatusInternalServerError)
    /\ pc' = "done"
    /\ UNCHANGED <<token, rawParams, fileState, fileRows, params, users,
                   touched, fnVars, handlers>>

Next ==
    \/ AuthStep
    \/ ParseStep
    \/ ValidateStep
    \/ ReadStep
    \/ ParseUsersStep
    \/ ProcessStep
    \/ EncodeStep

Spec == Init /\ [][Next]_vars

----------------------------------------------------------------------------
(* The pipeline functions called on their own, as TestSortUsers calls       *)
(* sortUsers                                                               *)

InitFn ==
    /\ token = TokGood
    /\ rawParams = [limit |-> Absent, offset |-> Absent, order_by |-> Absent,
                    query |-> Absent, order_field |-> Absent]
    /\ fileState = "ok"
    /\ fileRows = <<>>
    /\ pc = "idle"
    /\ params = NoParams
    /\ users = <<>>
    /\ resp = NewResponse
    /\ touched = NotTouched
    /\ fnUsers \in UserSeqs
    /\ fnArgs = FnIdleArgs
    /\ fnOut = NoResult
    /\ fnBacking = fnUsers
    /\ handlers = <<>>

CallFilterUsers ==
    /\ fnArgs.fn = "none"
    /\ \E q \in Queries :
          /\ fnArgs' = [FnIdleArgs EXCEPT !.fn = "filterUsers", !.Query = q]
          /\ fnOut' = [panic |-> FALSE, users |-> filterUsers(fnUsers, q)]
          /\ \E cleared \in BOOLEAN :
                fnBacking' = filterUsersInPlace(fnUsers, q, cleared)
    /\ UNCHANGED <<srvVars, handlers, fnUsers>>

CallSortUsers ==
    /\ fnArgs.fn = "none"
    /\ \E f \in OrderFields, o \in OrderBys :
          /\ fnArgs' = [FnIdleArgs EXCEPT !.fn = "sortUsers",
                                          !.OrderField = f, !.OrderBy = o]
          /\ fnOut' = [panic |-> FALSE, users |-> sortUsers(fnUsers, f, o)]
          /\ fnBacking' = sortUsers(fnUsers, f, o)
    /\ UNCHANGED <<srvVars, handlers, fnUsers>>

\* processUsers calls paginateUsers only with 0 <= offset < len(users)
CallPaginateUsers ==
    /\ fnArgs.fn = "none"
    /\ \E off \in 0..(Len(fnUsers) - 1), lim \in Limits :
          /\ fnArgs' = [FnIdleArgs EXCEPT !.fn = "paginateUsers",
                                          !.Offset = off, !.Limit = lim]
          /\ fnOut' = paginateUsers(fnUsers, off, lim)
    /\ UNCHANGED <<srvVars, handlers, fnUsers, fnBacking>>

CallProcessUsers ==
    /\ fnArgs.fn = "none"
    /\ \E q \in Queries, f \in OrderFields, o \in OrderBys,
          off \in 0..(MaxUsers + 1), lim \in Limits :
          /\ fnArgs' = [fn |-> "processUsers", Query |-> q, OrderField |-> f,
                        OrderBy |-> o, Offset |-> off, Limit |-> lim]
          /\ fnOut' = processUsers(fnUsers, fnArgs')
          /\ \E cleared \in BOOLEAN :
                fnBacking' = processUsersInPlace(fnUsers, fnArgs', cleared)
    /\ UNCHANGED <<srvVars, handlers, fnUsers>>

NextFn ==
    \/ CallFilterUsers
    \/ CallSortUsers
    \/ CallPaginateUsers
    \/ CallProcessUsers

SpecFn == InitFn /\ [][NextFn]_vars

----------------------------------------------------------------------------
(* Notions the properties are stated with *)

\* sub occurs in s as a contiguous run of bytes
IsSubstring(sub, s) ==
    \E i \in 1..(Len(s) + 1), j \in 0..Len(s) : SubSeq(s, i, j) = sub

\* the record matches the query: the query occurs in its Name or its About
Matches(u, q) == IsSubstring(q, u.Name) \/ IsSubstring(q, u.About)

\* the k-th smallest element of a set of indices
KthIndex(I, k) == CHOOSE i \in I : Cardinality({ j \in I : j <= i }) = k

\* out is the sub-sequence of in at the indices I, in increasing order
IsSubSeqAt(out, in, I) ==
    /\ Len(out) = Cardinality(I)
    /\ \A k \in 1..Len(out) : out[k] = in[KthIndex(I, k)]

\* a is before b in bytewise lexicographic order
LexLess(a, b) ==
    \E k \in 1..Len(b) :
        /\ k <= Len(a) + 1
        /\ \A i \in 1..(k - 1) : a[i] = b[i]
        /\ (k = Len(a) + 1 \/ a[k] < b[k])

\* u's key under the order field is at most v's; "" selects the name
KeyLE(field, u, v) ==
    IF field = ageFieldName THEN u.Age <= v.Age
    ELSE IF field = idFieldName THEN u.ID <= v.ID
    ELSE u.Name = v.Name \/ LexLess(u.Name, v.Name)

KeyEq(field, u, v) == KeyLE(field, u, v) /\ KeyLE(field, v, u)

\* the number of positions of s that hold x
Count(s, x) == Cardinality({ i \in 1..Len(s) : s[i] = x })

IsPermutation(s, t) ==
    /\ Len(s) = Len(t)
    /\ \A i \in 1..Len(s) : Count(s, s[i]) = Count(t, s[i])

\* the positions of s whose record has the same key as u
KeyClass(s, field, u) == { i \in 1..Len(s) : KeyEq(field, s[i], u) }

\* the records left after filtering, for a direct call of the pipeline
FnFiltered == SelectSeq(fnUsers, LAMBDA u : Matches(u, fnArgs.Query))

----------------------------------------------------------------------------
(* C1 - C4: the pipeline functions, under SpecFn *)

\* C1: filterUsers returns the sub-sequence of its input, in the input's
\* order, that holds exactly the records whose Name or About contains the
\* query as a literal, case-sensitive substring; with the empty query it
\* returns the whole input.
C1_FilterCorrect ==
    fnArgs.fn = "filterUsers" =>
        /\ IsSubSeqAt(fnOut.users, fnUsers,
                      { i \in 1..Len(fnUsers) : Matches(fnUsers[i], fnArgs.Query) })
        /\ fnArgs.Query = <<>> => fnOut.users = fnUsers

\* a call that kept a record for its About alone, dropped a record from the
\* middle and kept at least two
C1_Witness ==
    /\ fnArgs.fn = "filterUsers"
    /\ fnArgs.Query # <<>>
    /\ Len(fnOut.users) >= 2
    /\ Len(fnUsers) = 3
    /\ ~Matches(fnUsers[2], fnArgs.Query)
    /\ \E k \in 1..Len(fnOut.users) :
          ~IsSubstring(fnArgs.Query, fnOut.users[k].Name)

\* C2: sortUsers is stable for each order field and both directions:
\* records with equal keys keep their input order, so that the records of
\* one key class are the same sub-sequence of the input and of the output,
\* and sorting the output again leaves it unchanged.
C2_SortStable ==
    (fnArgs.fn = "sortUsers" /\ fnArgs.OrderBy \in {1, -1}) =>
        /\ \A u \in ClientUsers :
              LET I == KeyClass(fnUsers, fnArgs.OrderField, u)
                  O == KeyClass(fnOut.users, fnArgs.OrderField, u)
              IN  /\ Cardinality(I) = Cardinality(O)
                  /\ \A k \in 1..Cardinality(I) :
                        fnOut.users[KthIndex(O, k)] = fnUsers[KthIndex(I, k)]
        /\ sortUsers(fnOut.users, fnArgs.OrderField, fnArgs.OrderBy) = fnOut.users

\* a descending sort that moved records and met two different records with
\* equal keys
C2_Witness ==
    /\ fnArgs.fn = "sortUsers"
    /\ fnArgs.OrderBy = -1
    /\ fnOut.users # fnUsers
    /\ \E i, j \in 1..Len(fnUsers) :
          /\ i < j
          /\ fnUsers[i] # fnUsers[j]
          /\ KeyEq(fnArgs.OrderField, fnUsers[i], fnUsers[j])

\* C3: sortUsers returns a permutation of its input; with order_by = 1 the
\* keys are non-decreasing along the output, with order_by = -1 they are
\* non-increasing, with order_by = 0 the output is the input; the empty
\* order field sorts by name.
C3_SortOrdered ==
    fnArgs.fn = "sortUsers" =>
        /\ IsPermutation(fnOut.users, fnUsers)
        /\ fnArgs.OrderBy = 1 =>
              \A i, j \in 1..Len(fnOut.users) :
                  i < j => KeyLE(fnArgs.OrderField, fnOut.users[i], fnOut.users[j])
        /\ fnArgs.OrderBy = -1 =>
              \A i, j \in 1..Len(fnOut.users) :
                  i < j => KeyLE(fnArgs.OrderField, fnOut.users[j], fnOut.users[i])
        /\ fnArgs.OrderBy = 0 => fnOut.users = fnUsers
        /\ fnArgs.OrderField = <<>> =>
              \A i, j \in 1..Len(fnOut.users) :
                  (i < j /\ fnArgs.OrderBy = 1) =>
                      ~LexLess(fnOut.users[j].Name, fnOut.users[i].Name)

\* a descending sort by the default field that had to reorder three names
C3_Witness ==
    /\ fnArgs.fn = "sortUsers"
    /\ fnArgs.OrderField = <<>>
    /\ fnArgs.OrderBy = -1
    /\ Len(fnUsers) = 3
    /\ fnOut.users # fnUsers
    /\ LexLess(fnOut.users[3].Name, fnOut.users[1].Name)

----------------------------------------------------------------------------
(* C5 - C10: the handler, under Spec *)

\* the request carries a token that authCheck accepts
TokenAccepted == token.segments = 3 /\ token.sigOK /\ token.claimsOK

\* the parameter is present and is the decimal form of a machine integer
IsIntParam(raw) ==
    /\ raw # Absent
    /\ \E v \in MinInt..MaxInt : raw[1] = Itoa(v)

IntParamsParsed ==
    /\ IsIntParam(rawParams["limit"])
    /\ IsIntParam(rawParams["offset"])
    /\ IsIntParam(rawParams["order_by"])

\* the four range checks of a parsed request
LimitOK == params.Limit > 0

OffsetOK == params.Offset >= 0

OrderFieldOK ==
    params.OrderField \in {<<>>, nameFieldName, ageFieldName, idFieldName}

OrderByOK == params.OrderBy \in {-1, 0, 1}

\* the handler ran the pipeline on a parsed dataset
PipelineRan ==
    /\ pc \in {"encode", "done", "panic"}
    /\ touched.parsed
    /\ fileState = "ok"

\* the records of the dataset that match the request's query
MatchingCount ==
    Cardinality({ i \in 1..Len(fileRows) :
                    Matches(parseUser(fileRows[i]), params.Query) })

\* C5, as claimed: a request whose offset is at least the number of records
\* left after filtering is answered 400 with an error message, never with a
\* successful empty page.
C5_AsClaimed ==
    (pc = "done" /\ PipelineRan /\ params.Offset >= MatchingCount) =>
        /\ resp.status = StatusBadRequest
        /\ resp.body.kind # "users"

ClaimedValidation ==
    IF ~LimitOK THEN errBadLimitParam
    ELSE IF ~OffsetOK THEN errBadOffsetParam
    ELSE IF ~OrderFieldOK THEN errBadOrderFieldParam
    ELSE IF ~OrderByOK THEN errBadOrderByParam
    ELSE NoError

\* the first failing check in the order: order field, limit, offset, order_by
AmendedValidation ==
    IF ~OrderFieldOK THEN errBadOrderFieldParam
    ELSE IF ~LimitOK THEN errBadLimitParam
    ELSE IF ~OffsetOK THEN errBadOffsetParam
    ELSE IF ~OrderByOK THEN errBadOrderByParam
    ELSE NoError

\* the handler is past validateQueryParams for a request that parsed
Validated ==
    /\ TokenAccepted
    /\ IntParamsParsed
    /\ pc \notin {"auth", "parse", "validate"}

\* the answer of the handler to a request that failed validation with err
RejectedWith(err) ==
    /\ pc = "done"
    /\ resp.status = StatusBadRequest
    /\ resp.body \in {ErrorServer(err), NoBody}
    /\ ~touched.read

\* C7, as claimed: validateQueryParams reports the first failing check in
\* the order limit, offset, order field, order_by, and no error iff all
\* four checks pass.
C7_AsClaimed ==
    Validated =>
        IF ClaimedValidation = NoError
        THEN ~(pc = "done" /\ resp.status = StatusBadRequest)
        ELSE RejectedWith(ClaimedValidation)

\* C7, amended: validateQueryParams reports the first failing check in the
\* order order field, limit, offset, order_by, and no error iff all four
\* checks pass.
C7_ValidationOrder ==
    Validated =>
        IF AmendedValidation = NoError
        THEN ~(pc = "done" /\ resp.status = StatusBadRequest)
        ELSE RejectedWith(AmendedValidation)

\* a request with a bad limit and an unknown order field, answered with the
\* order-field message
C7_Witness ==
    /\ Validated
    /\ ~LimitOK
    /\ ~OrderFieldOK
    /\ resp.status = StatusBadRequest
    /\ resp.body = ErrorServer(errBadOrderFieldParam)

\* C8: with a valid token, a request whose limit, offset or order_by is
\* absent or not an integer is answered 400 "bad query params" whatever the
\* other parameters are and before any range check; absent query and
\* order_field are read as empty strings and are no error.
C8_MalformedParams ==
    (TokenAccepted /\ pc \notin {"auth", "parse"}) =>
        IF IntParamsParsed
        THEN /\ rawParams["query"] = Absent => params.Query = <<>>
             /\ rawParams["order_field"] = Absent => params.OrderField = <<>>
             /\ resp.body # ErrorServer(errBadQueryParams)
             /\ params.Limit = CHOOSE v \in MinInt..MaxInt :
                                  rawParams["limit"][1] = Itoa(v)
        ELSE /\ pc = "done"
             /\ resp.status = StatusBadRequest
             /\ resp.contentType = "application/json"
             /\ resp.body \in {ErrorServer(errBadQueryParams), NoBody}
             /\ ~touched.read

\* a request with an out-of-range limit and no order_by, answered
\* "bad query params"
C8_Witness ==
    /\ TokenAccepted
    /\ pc = "done"
    /\ rawParams["limit"] = Present(Itoa(0))
    /\ rawParams["offset"] = Present(Itoa(-1))
    /\ rawParams["order_by"] = Absent
    /\ rawParams["order_field"] = Present(genderFieldName)
    /\ resp.status = StatusBadRequest
    /\ resp.body = ErrorServer(errBadQueryParams)

\* C9: a request whose token is empty or fails verification is answered 401
\* with an empty body whatever its parameters and whatever the dataset file
\* is; the handler goes no further, so no other status is produced and the
\* dataset is not touched.
C9_AuthFirst ==
    ~TokenAccepted =>
        /\ pc \in {"auth", "done"}
        /\ touched = NotTouched
        /\ params = NoParams
        /\ pc = "auth" => resp = NewResponse
        /\ pc = "done" =>
              /\ resp.status = StatusUnauthorized
              /\ resp.body = NoBody
              /\ resp.contentType = ""

\* an empty token with malformed parameters and no dataset file, answered 401
C9_Witness ==
    /\ token = TokEmpty
    /\ pc = "done"
    /\ rawParams["limit"] = Absent
    /\ fileState = "missing"
    /\ resp.status = StatusUnauthorized
    /\ resp.body = NoBody

\* C10, as claimed: every response with status 500 has an empty body, when
\* the dataset file cannot be read and when the document cannot be parsed.
C10_AsClaimed ==
    (pc = "done" /\ resp.status = StatusInternalServerError) =>
        resp.body = NoBody

----------------------------------------------------------------------------
(* C11 - C16 *)

\* C12: for a validated request with offset < n, n the number of filtered
\* records, the page processUsers returns is the run of positions
\* offset .. min(offset + limit, n) - 1 of the sorted whole filtered
\* sequence: the slice is cut after the sort, not before.
C12_SortBeforeSlice ==
    (/\ fnArgs.fn = "processUsers"
     /\ ~fnOut.panic
     /\ fnArgs.Offset < Len(FnFiltered)) =>
        LET sorted == sortUsers(FnFiltered, fnArgs.OrderField, fnArgs.OrderBy)
            n      == Len(sorted)
            end    == IF fnArgs.Offset + fnArgs.Limit <= n
                      THEN fnArgs.Offset + fnArgs.Limit
                      ELSE n
        IN  /\ Len(fnOut.users) = end - fnArgs.Offset
            /\ \A k \in 1..(end - fnArgs.Offset) :
                  fnOut.users[k] = sorted[fnArgs.Offset + k]

\* a one-record page from the middle of three filtered records, holding a
\* record that was not in the middle before the sort
C12_Witness ==
    /\ fnArgs.fn = "processUsers"
    /\ ~fnOut.panic
    /\ fnArgs.Query # <<>>
    /\ Len(FnFiltered) = 3
    /\ fnArgs.Offset = 1
    /\ fnArgs.Limit = 1
    /\ fnArgs.OrderBy = -1
    /\ fnOut.users # <<FnFiltered[2]>>

\* the position of a stage in the text of SearchServer
StageRank(stage) ==
    CASE stage = "auth" -> 0
      [] stage = "parse" -> 1
      [] stage = "validate" -> 2
      [] stage = "read" -> 3
      [] stage = "parseUsers" -> 4
      [] stage = "process" -> 5
      [] stage = "encode" -> 6
      [] OTHER -> 7

\* the first stage that fails for the request and the dataset file; read
\* only where the request's integers parsed or the token was refused
FailedStage ==
    IF ~TokenAccepted THEN "auth"
    ELSE IF ~IntParamsParsed THEN "parse"
    ELSE IF AmendedValidation # NoError THEN "validate"
    ELSE IF fileState = "missing" THEN "read"
    ELSE IF fileState = "broken" THEN "parseUsers"
    ELSE "none"

\* the status the handler answers when that stage is the first to fail
StatusOfFailure(stage) ==
    CASE stage = "auth" -> StatusUnauthorized
      [] stage \in {"parse", "validate"} -> StatusBadRequest
      [] stage \in {"read", "parseUsers"} -> StatusInternalServerError
      [] OTHER -> StatusOK

\* C13, the states: the dataset is read only after authorization, parsing
\* and validation succeeded and parsed only after it was read; the first
\* failing stage decides the status; 200 is answered only when no stage
\* failed.
C13_StageStates ==
    /\ touched.read =>
          /\ TokenAccepted
          /\ IntParamsParsed
          /\ AmendedValidation = NoError
    /\ touched.parsed => (touched.read /\ fileState # "missing")
    /\ pc \in {"process", "encode", "panic"} =>
          (touched.parsed /\ fileState = "ok")
    /\ pc = "done" =>
          /\ resp.status = StatusOfFailure(FailedStage)
          /\ touched.read <=> FailedStage \in {"read", "parseUsers", "none"}
          /\ touched.parsed <=> FailedStage \in {"parseUsers", "none"}
    /\ resp.status = StatusOK =>
          (pc = "done" /\ FailedStage = "none" /\ touched.parsed)

\* C13, the steps: the handler moves through its stages in the order auth,
\* parse, validate, read, parseUsers, process, encode, one stage at a time,
\* unless it ends.
C13_StageSteps ==
    /\ StageRank(pc') > StageRank(pc)
    /\ StageRank(pc') < 7 => StageRank(pc') = StageRank(pc) + 1

\* C13: SearchServer runs auth check, parameter parsing, validation, dataset
\* read, dataset parse and the pipeline in that order and the first stage
\* that fails determines the response; the dataset is never read or parsed
\* for a request that failed an earlier stage, and 200 is answered only
\* after every stage succeeded.
C13_StageOrder == [](C13_StageStates) /\ [][C13_StageSteps]_vars

\* a request that failed validation, answered 400, with a dataset file that
\* is missing and was never looked for
C13_Witness ==
    /\ pc = "done"
    /\ TokenAccepted
    /\ IntParamsParsed
    /\ AmendedValidation # NoError
    /\ fileState = "missing"
    /\ resp.status = StatusBadRequest
    /\ touched = NotTouched

\* the number of newline and space bytes that s ends in
TrailingBlanks(s) ==
    CHOOSE k \in 0..Len(s) :
        /\ \A i \in (Len(s) - k + 1)..Len(s) : s[i] \in {chNL, chSP}
        /\ (k = Len(s) \/ s[Len(s) - k] \notin {chNL, chSP})

\* the handler holds the records parseUsers returned for the dataset
JustParsed == pc = "process"

\* C14, as claimed: parseUsers removes exactly the last one of the k >= 1
\* newline or space bytes a biography ends in and keeps the other k - 1.
C14_AsClaimed ==
    JustParsed =>
        \A i \in 1..Len(fileRows) :
            LET raw == fileRows[i].About
            IN  TrailingBlanks(raw) >= 1 =>
                    users[i].About = SubSeq(raw, 1, Len(raw) - 1)

\* C14, amended: parseUsers removes all k newline or space bytes a
\* biography ends in; it returns one record per row, in document order,
\* with ID, Age and Gender copied and Name = first name, one space, last
\* name.
C14_TrimAll ==
    JustParsed =>
        /\ Len(users) = Len(fileRows)
        /\ \A i \in 1..Len(fileRows) :
              LET row == fileRows[i]
                  raw == row.About
              IN  /\ users[i].About =
                        SubSeq(raw, 1, Len(raw) - TrailingBlanks(raw))
                  /\ users[i].ID = row.ID
                  /\ users[i].Age = row.Age
                  /\ users[i].Gender = row.Gender
                  /\ Len(users[i].Name) = Len(row.Name) + 1 + Len(row.Surname)
                  /\ SubSeq(users[i].Name, 1, Len(row.Name)) = row.Name
                  /\ users[i].Name[Len(row.Name) + 1] = chSP
                  /\ SubSeq(users[i].Name, Len(row.Name) + 2,
                            Len(users[i].Name)) = row.Surname

\* a parsed dataset with a biography that ended in a space and a newline,
\* and one with an empty last name
C14_Witness ==
    /\ JustParsed
    /\ \E i \in 1..Len(fileRows) :
          /\ TrailingBlanks(fileRows[i].About) = 2
          /\ Len(users[i].About) = Len(fileRows[i].About) - 2
    /\ \E i \in 1..Len(fileRows) : fileRows[i].Surname = <<>>

\* C16, as claimed: for a request that passed parseQueryParams and
\* validateQueryParams and has offset < number of filtered records, the
\* slice expression of paginateUsers is within bounds, also when
\* offset + limit wraps around; the handler never panics on it.
C16_AsClaimed ==
    (/\ TokenAccepted
     /\ IntParamsParsed
     /\ PipelineRan
     /\ params.Limit > 0
     /\ params.Offset >= 0
     /\ params.Offset < MatchingCount) =>
        pc # "panic"

\* C15, as claimed: after filterUsers, sortUsers or processUsers returned,
\* the slice the caller passed holds the same records in the same order as
\* before the call.
C15_AsClaimed ==
    fnArgs.fn \in {"filterUsers", "sortUsers", "processUsers"} =>
        fnBacking = fnUsers

----------------------------------------------------------------------------
(* SearchServer, several requests at once: net/http runs one goroutine per  *)
(* request; the handlers share the dataset file and nothing else           *)

\* the locals of one run of SearchServer
NewHandler(tok, raw) ==
    [token |-> tok, rawParams |-> raw, pc |-> "auth", params |-> NoParams,
     users |-> <<>>, resp |-> NewResponse, touched |-> NotTouched]

\* one stage of SearchServer on the locals st, with the dataset file as it
\* is found
SearchServerStep(st, fState, fRows, writeOK) ==
    CASE st.pc = "auth" ->
            IF authCheck(st.token) # NoError
            THEN [st EXCEPT !.resp = WriteHeader(st.resp, StatusUnauthorized),
                            !.pc = "done"]
            ELSE [st EXCEPT !.pc = "parse"]
      [] st.pc = "parse" ->
            LET r == parseQueryParams(st.rawParams)
            IN  IF r.err # NoError
                THEN [st EXCEPT !.resp = sendErrorResponse(st.resp, r.err,
                                             StatusBadRequest, writeOK),
                                !.pc = "done"]
                ELSE [st EXCEPT !.params = r.params, !.pc = "validate"]
      [] st.pc = "validate" ->
            LET err == validateQueryParams(st.params)
            IN  IF err # NoError
                THEN [st EXCEPT !.resp = sendErrorResponse(st.resp, err,
                                             StatusBadRequest, writeOK),
                                !.pc = "done"]
                ELSE [st EXCEPT !.pc = "read"]
      [] st.pc = "read" ->
            IF fState = "missing"
            THEN [st EXCEPT !.touched.read = TRUE,
                            !.resp = WriteHeader(st.resp,
                                                 StatusInternalServerError),
                            !.pc = "done"]
            ELSE [st EXCEPT !.touched.read = TRUE, !.pc = "parseUsers"]
      [] st.pc = "parseUsers" ->
            LET r == parseUsers(fState, fRows)
            IN  IF r.err # NoError
                THEN [st EXCEPT !.touched.parsed = TRUE,
                                !.resp = sendErrorResponse(st.resp, r.err,
                                             StatusInternalServerError, writeOK),
                                !.pc = "done"]
                ELSE [st EXCEPT !.touched.parsed = TRUE,
                                !.users = r.users,
                                !.pc = "process"]
      [] st.pc = "process" ->
            LET r == processUsers(st.users, st.params)
            IN  IF r.panic
                THEN [st EXCEPT !.pc = "panic"]
                ELSE [st EXCEPT !.users = r.users, !.pc = "encode"]
      [] st.pc = "encode" ->
            LET w1 == SetContentType(st.resp, "application/json")
                w2 == Encode(w1, UsersBody(st.users), writeOK)
            IN  [st EXCEPT !.resp = IF writeOK THEN w2
                                    ELSE WriteHeader(w2, StatusInternalServerError),
                           !.pc = "done"]
      [] OTHER -> st

Finished(st) == st.pc \in {"done", "panic"}

Procs == 1..NumRequests

RawRequest(lim, off, ob, q, f) ==
    [limit |-> lim, offset |-> off, order_by |-> ob, query |-> q,
     order_field |-> f]

\* the requests that meet: pages of sorted and of filtered records, an
\* empty page, a refused token, a bad limit, a missing order_by and a limit
\* that makes offset + limit wrap
ConcRequests ==
    { NewHandler(TokGood, RawRequest(Present(Itoa(1)), Present(Itoa(1)),
                     Present(Itoa(-1)), Absent, Present(ageFieldName))),
      NewHandler(TokGood, RawRequest(Present(Itoa(2)), Present(Itoa(0)),
                     Present(Itoa(1)), Present(strA), Present(nameFieldName))),
      NewHandler(TokGood, RawRequest(Present(Itoa(2)), Present(Itoa(MaxUsers)),
                     Present(Itoa(0)), Present(strA), Absent)),
      NewHandler(TokGood, RawRequest(Present(Itoa(1)), Present(Itoa(0)),
                     Present(Itoa(0)), Present(strZ), Absent)),
      NewHandler(TokEmpty, RawRequest(Present(Itoa(1)), Present(Itoa(0)),
                     Present(Itoa(0)), Absent, Absent)),
      NewHandler(TokGood, RawRequest(Present(Itoa(0)), Present(Itoa(0)),
                     Present(Itoa(0)), Absent, Absent)),
      NewHandler(TokGood, RawRequest(Present(Itoa(1)), Present(Itoa(0)),
                     Absent, Absent, Absent)),
      NewHandler(TokGood, RawRequest(Present(Itoa(MaxInt)), Present(Itoa(1)),
                     Present(Itoa(0)), Absent, Absent)) }

ConcDatasets ==
    { [i \in 1..MaxUsers |-> RowAt(i)],
      [i \in 1..MaxUsers |-> RowAt(MaxUsers + 1 - i)] }

InitConc ==
    /\ handlers \in [Procs -> ConcRequests]
    /\ fileState \in {"missing", "broken", "ok"}
    /\ fileRows \in (IF fileState = "ok" THEN ConcDatasets ELSE { <<>> })
    /\ token = TokGood
    /\ rawParams = RawRequest(Absent, Absent, Absent, Absent, Absent)
    /\ pc = "idle"
    /\ params = NoParams
    /\ users = <<>>
    /\ resp = NewResponse
    /\ touched = NotTouched
    /\ fnUsers = <<>>
    /\ fnArgs = FnIdleArgs
    /\ fnOut = NoResult
    /\ fnBacking = <<>>

\* variant: the parsed dataset is kept for all requests and filterUsers
\* works on it in place
ServeStep_SharedDataset(p) ==
    /\ ~Finished(handlers[p])
    /\ \E writeOK \in BOOLEAN :
          handlers' = [handlers EXCEPT
                          ![p] = SearchServerStep(@, fileState, fileRows, writeOK)]
    /\ fileRows' = IF handlers[p].pc = "process"
                   THEN SelectSeq(fileRows,
                            LAMBDA row : ~filterDel(parseUser(row),
                                                    handlers[p].params.Query))
                   ELSE fileRows
    /\ UNCHANGED <<token, rawParams, fileState, pc, params, users, resp,
                   touched, fnVars>>

\* the goroutine of request p runs its next stage
ServeStep(p) ==
    /\ ~Finished(handlers[p])
    /\ \E writeOK \in BOOLEAN :
          handlers' = [handlers EXCEPT
                          ![p] = SearchServerStep(@, fileState, fileRows, writeOK)]
    /\ UNCHANGED <<srvVars, fnVars>>

NextConc == \E p \in Procs : ServeStep(p)

SpecConc == InitConc /\ [][NextConc]_vars

RECURSIVE RunAlone(_, _, _)
\* the run of SearchServer on the request of st with no other request
\* around and every write succeeding
RunAlone(st, fState, fRows) ==
    IF Finished(st) THEN st
    ELSE RunAlone(SearchServerStep(st, fState, fRows, TRUE), fState, fRows)

\* what the client of a finished handler sees, as far as it was written
SameAnswer(a, b) ==
    /\ a.pc = b.pc
    /\ a.resp.status = b.resp.status
    /\ a.users = b.users
    /\ (a.resp.body # NoBody /\ b.resp.body # NoBody) =>
          a.resp.body = b.resp.body

\* C11, the states: the answer to a finished request is the answer the
\* request gets when it is served alone on the dataset, whatever the other
\* requests are and however far they got; two finished requests that are
\* identical got identical answers.
C11_Deterministic ==
    \A p \in DOMAIN handlers :
        Finished(handlers[p]) =>
            /\ SameAnswer(handlers[p],
                          RunAlone(NewHandler(handlers[p].token,
                                              handlers[p].rawParams),
                                   fileState, fileRows))
            /\ \A q \in DOMAIN handlers :
                  (/\ Finished(handlers[q])
                   /\ handlers[q].token = handlers[p].token
                   /\ handlers[q].rawParams = handlers[p].rawParams) =>
                      SameAnswer(handlers[p], handlers[q])

\* C11, the steps: a step of one handler leaves the dataset and the locals
\* of every other handler as they are.
C11_NoSharedWrite ==
    /\ fileState' = fileState
    /\ fileRows' = fileRows
    /\ \A p, q \in DOMAIN handlers :
          (p # q /\ handlers'[p] # handlers[p]) => handlers'[q] = handlers[q]

\* C11: the response to a request depends only on the request and on the
\* dataset, in any interleaving with other requests, identical requests
\* get identical pages, and no handler writes state another request reads.
C11_Independent == [](C11_Deterministic) /\ [][C11_NoSharedWrite]_vars

\* two identical requests, both answered 200 with the same page of two
\* records
C11_Witness ==
    /\ NumRequests >= 2
    /\ handlers # <<>>
    /\ handlers[1].rawParams = handlers[2].rawParams
    /\ handlers[1].pc = "done"
    /\ handlers[2].pc = "done"
    /\ handlers[1].resp.status = StatusOK
    /\ Len(handlers[1].users) = 2
    /\ handlers[1].resp.body = handlers[2].resp.body
    /\ handlers[1].resp.body.kind = "users"

\* the handler of Spec takes the steps of SearchServerStep
StepAgrees ==
    LET cur == [token |-> token, rawParams |-> rawParams, pc |-> pc,
                params |-> params, users |-> users, resp |-> resp,
                touched |-> touched]
        nxt == [token |-> token', rawParams |-> rawParams', pc |-> pc',
                params |-> params', users |-> users', resp |-> resp',
                touched |-> touched']
    IN  \E writeOK \in BOOLEAN :
            nxt = SearchServerStep(cur, fileState, fileRows, writeOK)

SpecStepsAgree == [][StepAgrees]_vars

====
